---------------------------- MODULE Spec2Model ----------------------------
(***************************************************************************)
(* The image-tagging ingestion pipeline of the trip-journaling backend:    *)
(* router.post("/:id") of src/routes/trips.js, Trip.addImage, Trip.create  *)
(* and Trip.remove of src/models/trip.js, and the relational schema        *)
(* (CREATE TABLE trips / images).                                          *)
(*                                                                         *)
(* An async handler runs atomically between two awaits, so every action    *)
(* below is one such segment: from the completion of one external call     *)
(* (landmark detection, label detection, S3 upload, INSERT) up to the      *)
(* next one the handler issues.                                            *)
(***************************************************************************)
EXTENDS Integers, Sequences, FiniteSets, TLC

(***************************************************************************)
(* Bounds of the model.                                                    *)
(***************************************************************************)
\* Longest label list the classifier returns (one more than the 5 slots).
MaxLabels == 6
\* Largest value of Date.now() (milliseconds since the server started).
MaxClock == 1
\* Longest landmark list the classifier returns.
MaxLandmarks == 2
\* Number of ids the trips SERIAL sequence hands out.
MaxTrips == 1
\* The same, and the number of image ids, when the models are called directly.
MaxDbTrips == 2
MaxDbImages == 2

\* The requests of one execution: two, so that they can interleave.
Reqs == {"r1", "r2"}

\* The calls of User.register of one execution, for the same reason.
Regs == {"g1", "g2"}

(***************************************************************************)
(* JavaScript and SQL values.                                              *)
(***************************************************************************)
\* The value of a missing property or of an index past the end of an array.
Undefined == "<undefined>"
\* SQL NULL: what node-postgres sends for an undefined parameter.
Null == "<null>"

\* !v of JavaScript, for the strings and missing values of the model.
Falsy(v) == v \in {Undefined, Null, ""}

\* arr[i] of JavaScript (0-based): undefined past the end.
Index(arr, i) == IF i < Len(arr) THEN arr[i + 1] ELSE Undefined

\* tag1 VARCHAR(25): the longest tag a row of images can hold.
VarcharLen == 25

(***************************************************************************)
(* The classifier.  Its answer is a function of the image bytes, so the    *)
(* photos a client can send are listed with what the service sees in them. *)
(***************************************************************************)
Photos == {"eiffel", "cat", "blank", "louvre", "ironwork", "facade"}

\* result.landmarkAnnotations of client.landmarkDetection(image).
LandmarkAnnotations(image) ==
  CASE image = "eiffel"   -> << [description |-> "Eiffel Tower"] >>
    [] image = "louvre"   -> << [description |-> "Louvre Pyramid"],
                                [description |-> "Louvre Museum"] >>
    [] OTHER              -> << >>

\* result.labelAnnotations of client.labelDetection(image), best first.
LabelAnnotations(image) ==
  CASE image = "eiffel"   -> << [description |-> "tower"], [description |-> "sky"],
                                [description |-> "architecture"],
                                [description |-> "landmark"], [description |-> "europe"] >>
    [] image = "cat"      -> << [description |-> "cat"], [description |-> "whiskers"],
                                [description |-> "fur"], [description |-> "pet"],
                                [description |-> "animal"], [description |-> "sofa"] >>
    [] image = "louvre"   -> << [description |-> "glass"], [description |-> "museum"] >>
    [] image = "ironwork" -> << [description |-> "metal"],
                                [description |-> "nineteenth century ironwork"],
                                [description |-> "rivet"] >>
    [] image = "facade"   -> << [description |-> "building"], [description |-> "window"],
                                [description |-> "stone"],
                                [description |-> "seventeenth century architecture"] >>
    [] OTHER              -> << >>

(***************************************************************************)
(* Inputs: what a client can send.                                         *)
(***************************************************************************)
\* req.file as multer leaves it: undefined without a file part, otherwise
\* { originalname, buffer, mimetype }.
NoFile == [present |-> FALSE, originalname |-> Undefined, buffer |-> Undefined,
           mimetype |-> Undefined]

GoodFiles ==
  { [present |-> TRUE, originalname |-> "a.jpg", buffer |-> p, mimetype |-> "image/jpeg"]
      : p \in Photos }

BadFiles ==
  { [present |-> TRUE, originalname |-> "", buffer |-> "cat", mimetype |-> "image/jpeg"],
    [present |-> TRUE, originalname |-> "a.jpg", buffer |-> Undefined,
     mimetype |-> "image/jpeg"],
    [present |-> TRUE, originalname |-> "a.jpg", buffer |-> "cat", mimetype |-> Undefined] }

Files == {NoFile} \cup GoodFiles \cup BadFiles

\* req.body.caption: a text, or undefined when the field is missing.
Captions == {"sunset", Undefined}

\* req.params.id
TripIds == 1..MaxTrips

(***************************************************************************)
(* Tag Resolution: lines 133-154 of router.post("/:id").                   *)
(***************************************************************************)
\* labels.map(label => label.description)
Descriptions(labels) == [k \in 1..Len(labels) |-> labels[k].description]

\* TagData with the labels of the landmark branch not shifted by one slot.
TagDataUnshifted(ldmkArray, tags) ==
  IF Len(ldmkArray) = 0
  THEN [tag1 |-> Index(tags, 0), tag2 |-> Index(tags, 1), tag3 |-> Index(tags, 2),
        tag4 |-> Index(tags, 3), tag5 |-> Index(tags, 4)]
  ELSE [tag1 |-> ldmkArray[1].description,
        tag2 |-> Index(tags, 1), tag3 |-> Index(tags, 2),
        tag4 |-> Index(tags, 3), tag5 |-> Index(tags, 4)]

\* TagData without the branch: slot 1 is kept for the landmark, found or not.
TagDataLandmarkSlot(ldmkArray, tags) ==
  [tag1 |-> IF Len(ldmkArray) = 0 THEN Undefined ELSE ldmkArray[1].description,
   tag2 |-> Index(tags, 0), tag3 |-> Index(tags, 1),
   tag4 |-> Index(tags, 2), tag5 |-> Index(tags, 3)]

TagData(ldmkArray, tags) ==
  IF Len(ldmkArray) = 0
  THEN [tag1 |-> Index(tags, 0), tag2 |-> Index(tags, 1), tag3 |-> Index(tags, 2),
        tag4 |-> Index(tags, 3), tag5 |-> Index(tags, 4)]
  ELSE [tag1 |-> ldmkArray[1].description,
        tag2 |-> Index(tags, 0), tag3 |-> Index(tags, 1),
        tag4 |-> Index(tags, 2), tag5 |-> Index(tags, 3)]

\* let tagData; before the assignment
NoTagData == [tag1 |-> Undefined, tag2 |-> Undefined, tag3 |-> Undefined,
              tag4 |-> Undefined, tag5 |-> Undefined]

(***************************************************************************)
(* The object store.                                                       *)
(***************************************************************************)
\* params.Key
Key(originalname, now) == "tripimages/" \o originalname \o "-" \o ToString(now)

\* data.Location of a finished upload
Location(key) == "https://traveler-capstone-images.s3.us-east-2.amazonaws.com/" \o key

(***************************************************************************)
(* State.                                                                  *)
(***************************************************************************)
VARIABLES
  pc,         \* where each request's handler is suspended
  file,       \* req.file
  caption,    \* req.body.caption
  tripId,     \* req.params.id
  ldmkArray,  \* const ldmkArray
  tags,       \* const tags
  tagData,    \* let tagData
  params,     \* const params: the Key of the upload
  data,       \* data.Location handed to the upload callback
  imageId,    \* what Trip.addImage returned: the id of the inserted row
  res,        \* the response sent: [status, text], status 0 while none is sent
  nextErr,    \* the error handed to next(err)
  log,        \* the external operations the request invoked and how each ended
  now,        \* Date.now()
  bucket,     \* the object store: Key -> [Body, ContentType]
  trips,      \* table trips
  tripsSeq,   \* trips_id_seq
  images,     \* table images
  imagesSeq,  \* images_id_seq
  ldmkIn,     \* tag resolution alone: the landmark sequence given
  tagsIn,     \* tag resolution alone: the label sequence given
  tagsOut,    \* tag resolution alone: the TagSet computed
  resolved,   \* tag resolution alone: whether tagsOut was computed
  tagsOutAlt, \* tag resolution alone: the TagSet of the second route module
  resolvedAlt,\* tag resolution alone: whether tagsOutAlt was computed
  users,      \* table users
  usersSeq,   \* users_id_seq
  regPc,      \* where each call of User.register is suspended
  regName,    \* the username each call of User.register was given
  regOut      \* how each call of User.register ended

reqVars == <<pc, file, caption, tripId, ldmkArray, tags, tagData, params, data,
             imageId, res, nextErr, log>>
dbVars == <<trips, tripsSeq, images, imagesSeq>>
policyVars == <<ldmkIn, tagsIn, tagsOut, resolved, tagsOutAlt, resolvedAlt>>
acctVars == <<users, usersSeq, regPc, regName, regOut>>
vars == <<reqVars, now, bucket, dbVars, policyVars, acctVars>>

NoResponse == [status |-> 0, text |-> ""]
NoError == "none"

(***************************************************************************)
(* The persistence layer: src/models/trip.js over the schema.              *)
(***************************************************************************)
\* node-postgres sends an undefined query parameter as NULL.
PgParam(v) == IF v = Undefined THEN Null ELSE v

\* A VARCHAR(25) column takes NULL and the texts of at most 25 characters.
FitsVarchar(v) == v = Null \/ Len(v) <= VarcharLen

\* The row Trip.addImage inserts: it reads file_url, caption, tag1, tag2 and
\* tag3 of the image it is given, and the table has no further tag column.
ImageRow(id, trip, image) ==
  [id |-> id,
   file_url |-> PgParam(image.file_url),
   trip_id |-> trip,
   caption |-> PgParam(image.caption),
   tag1 |-> PgParam(image.tag1),
   tag2 |-> PgParam(image.tag2),
   tag3 |-> PgParam(image.tag3)]

\* The constraint the INSERT INTO images violates, "none" when it succeeds.
InsertError(row) ==
  IF row.file_url = Null THEN "not_null_violation"
  ELSE IF ~(FitsVarchar(row.tag1) /\ FitsVarchar(row.tag2) /\ FitsVarchar(row.tag3))
       THEN "string_data_right_truncation"
  ELSE IF row.trip_id \notin {t.id : t \in trips} THEN "foreign_key_violation"
  ELSE NoError

\* let imageData = { file_url: data.Location, caption: req.body.caption, ...tagData }
ImageData(location, cap, td) ==
  [file_url |-> location, caption |-> cap,
   tag1 |-> td.tag1, tag2 |-> td.tag2, tag3 |-> td.tag3,
   tag4 |-> td.tag4, tag5 |-> td.tag5]

(***************************************************************************)
(* Initial state: a server that has received nothing, over an empty        *)
(* database and an empty bucket.                                           *)
(***************************************************************************)
ReqInit ==
  /\ pc = [r \in Reqs |-> "idle"]
  /\ file = [r \in Reqs |-> NoFile]
  /\ caption = [r \in Reqs |-> Undefined]
  /\ tripId = [r \in Reqs |-> 0]
  /\ ldmkArray = [r \in Reqs |-> << >>]
  /\ tags = [r \in Reqs |-> << >>]
  /\ tagData = [r \in Reqs |-> NoTagData]
  /\ params = [r \in Reqs |-> Undefined]
  /\ data = [r \in Reqs |-> Undefined]
  /\ imageId = [r \in Reqs |-> 0]
  /\ res = [r \in Reqs |-> NoResponse]
  /\ nextErr = [r \in Reqs |-> NoError]
  /\ log = [r \in Reqs |-> << >>]

WorldInit ==
  /\ now = 0
  /\ bucket = << >>
  /\ trips = {}
  /\ tripsSeq = 1
  /\ images = {}
  /\ imagesSeq = 1

AcctInit ==
  /\ users = {}
  /\ usersSeq = 1
  /\ regPc = [g \in Regs |-> "idle"]
  /\ regName = [g \in Regs |-> Undefined]
  /\ regOut = [g \in Regs |-> NoError]

Init ==
  /\ ReqInit
  /\ WorldInit
  /\ AcctInit
  /\ ldmkIn = << >>
  /\ tagsIn = << >>
  /\ tagsOut = NoTagData
  /\ resolved = FALSE
  /\ tagsOutAlt = NoTagData
  /\ resolvedAlt = FALSE

\* The request's log holds the event.
InLog(r, e) == \E i \in 1..Len(log[r]) : log[r][i] = e

Called(op) == [op |-> op, ev |-> "called"]
Ok(op) == [op |-> op, ev |-> "ok"]
Failed(op) == [op |-> op, ev |-> "failed"]

(***************************************************************************)
(* router.post("/:id"): one action per segment between two awaits.         *)
(***************************************************************************)
\* Validate without the check of the caption.
ValidateNoCaption(f, cap) ==
  IF ~f.present THEN "No file uploaded."
  ELSE IF Falsy(f.originalname) \/ Falsy(f.buffer) \/ Falsy(f.mimetype)
       THEN "Uploaded file is missing required properties."
  ELSE ""

\* Lines 118-129: the reason the request is refused with, "" when it passes.
Validate(f, cap) ==
  IF ~f.present THEN "No file uploaded."
  ELSE IF Falsy(cap) THEN "No caption for file."
  ELSE IF Falsy(f.originalname) \/ Falsy(f.buffer) \/ Falsy(f.mimetype)
       THEN "Uploaded file is missing required properties."
  ELSE ""

\* Lines 113-130: the handler starts, validates and calls landmarkDetection.
Receive(r, f, cap, id) ==
  /\ pc[r] = "idle"
  /\ file' = [file EXCEPT ![r] = f]
  /\ caption' = [caption EXCEPT ![r] = cap]
  /\ tripId' = [tripId EXCEPT ![r] = id]
  /\ IF Validate(f, cap) # ""
     THEN /\ res' = [res EXCEPT ![r] = [status |-> 400, text |-> Validate(f, cap)]]
          /\ pc' = [pc EXCEPT ![r] = "done"]
          /\ log' = log
     ELSE /\ res' = res
          /\ pc' = [pc EXCEPT ![r] = "awaitLandmark"]
          /\ log' = [log EXCEPT ![r] = Append(@, Called("landmarkDetection"))]
  /\ UNCHANGED <<ldmkArray, tags, tagData, params, data, imageId, nextErr>>
  /\ UNCHANGED <<now, bucket, dbVars, policyVars, acctVars>>

\* Lines 130-131: landmarkDetection resolved; the handler calls labelDetection.
LandmarkResolved(r) ==
  /\ pc[r] = "awaitLandmark"
  /\ ldmkArray' = [ldmkArray EXCEPT ![r] = LandmarkAnnotations(file[r].buffer)]
  /\ pc' = [pc EXCEPT ![r] = "awaitLabel"]
  /\ log' = [log EXCEPT ![r] = @ \o <<Ok("landmarkDetection"), Called("labelDetection")>>]
  /\ UNCHANGED <<file, caption, tripId, tags, tagData, params, data, imageId, res, nextErr>>
  /\ UNCHANGED <<now, bucket, dbVars, policyVars, acctVars>>

\* An await outside any try block whose promise rejects: the async handler's
\* own promise rejects, nothing after the await runs, and the router, which
\* ignores the handler's return value, is told nothing.
Rejected(r, op) ==
  /\ pc' = [pc EXCEPT ![r] = "rejected"]
  /\ log' = [log EXCEPT ![r] = Append(@, Failed(op))]
  /\ UNCHANGED <<file, caption, tripId, ldmkArray, tags, tagData, params, data, imageId,
                 res, nextErr>>
  /\ UNCHANGED <<now, bucket, dbVars, policyVars, acctVars>>

\* landmarkDetection's failure swallowed: the handler goes on as if no
\* landmark had been found.
LandmarkRejectedSwallowed(r) ==
  /\ pc[r] = "awaitLandmark"
  /\ pc' = [pc EXCEPT ![r] = "awaitLabel"]
  /\ log' = [log EXCEPT ![r] =
               @ \o <<Failed("landmarkDetection"), Called("labelDetection")>>]
  /\ UNCHANGED <<file, caption, tripId, ldmkArray, tags, tagData, params, data, imageId,
                 res, nextErr>>
  /\ UNCHANGED <<now, bucket, dbVars, policyVars, acctVars>>

\* Line 130: client.landmarkDetection failed.
LandmarkRejected(r) ==
  /\ pc[r] = "awaitLandmark"
  /\ Rejected(r, "landmarkDetection")

\* labelDetection's failure caught and the image tagged without labels.
LabelRejectedFallback(r) ==
  /\ pc[r] = "awaitLabel"
  /\ tags' = [tags EXCEPT ![r] = << >>]
  /\ tagData' = [tagData EXCEPT ![r] = TagData(ldmkArray[r], << >>)]
  /\ params' = [params EXCEPT ![r] = Key(file[r].originalname, now)]
  /\ pc' = [pc EXCEPT ![r] = "awaitUpload"]
  /\ log' = [log EXCEPT ![r] = @ \o <<Failed("labelDetection"), Called("s3.upload")>>]
  /\ UNCHANGED <<file, caption, tripId, ldmkArray, data, imageId, res, nextErr>>
  /\ UNCHANGED <<now, bucket, dbVars, policyVars, acctVars>>

\* Line 131: client.labelDetection failed.
LabelRejected(r) ==
  /\ pc[r] = "awaitLabel"
  /\ Rejected(r, "labelDetection")

\* Lines 131-166: labelDetection resolved; the handler computes tagData,
\* builds the upload's params and calls s3.upload.
LabelResolved(r) ==
  /\ pc[r] = "awaitLabel"
  /\ tags' = [tags EXCEPT ![r] = Descriptions(LabelAnnotations(file[r].buffer))]
  /\ tagData' = [tagData EXCEPT ![r] = TagData(ldmkArray[r], tags'[r])]
  /\ params' = [params EXCEPT ![r] = Key(file[r].originalname, now)]
  /\ pc' = [pc EXCEPT ![r] = "awaitUpload"]
  /\ log' = [log EXCEPT ![r] = @ \o <<Ok("labelDetection"), Called("s3.upload")>>]
  /\ UNCHANGED <<file, caption, tripId, ldmkArray, data, imageId, res, nextErr>>
  /\ UNCHANGED <<now, bucket, dbVars, policyVars, acctVars>>

\* The bucket after an object is put under a key, replacing what was there.
Put(b, key, object) ==
  [k \in DOMAIN b \cup {key} |-> IF k = key THEN object ELSE b[k]]

\* Lines 166-178: the upload succeeded; the callback builds imageData and
\* calls Trip.addImage, which sends the INSERT.
UploadSucceeded(r) ==
  /\ pc[r] = "awaitUpload"
  /\ bucket' = Put(bucket, params[r],
                   [Body |-> file[r].buffer, ContentType |-> file[r].mimetype])
  /\ data' = [data EXCEPT ![r] = Location(params[r])]
  /\ pc' = [pc EXCEPT ![r] = "awaitInsert"]
  /\ log' = [log EXCEPT ![r] = @ \o <<Ok("s3.upload"), Called("Trip.addImage")>>]
  /\ UNCHANGED <<file, caption, tripId, ldmkArray, tags, tagData, params, imageId, res,
                 nextErr>>
  /\ UNCHANGED <<now, dbVars, policyVars, acctVars>>

\* The callback without the return of its error branch: 500 is sent and the
\* callback goes on to Trip.addImage with the location it was going to get.
UploadFailedNoReturn(r) ==
  /\ pc[r] = "awaitUpload"
  /\ res' = [res EXCEPT ![r] = [status |-> 500, text |-> "Error uploading image to S3"]]
  /\ data' = [data EXCEPT ![r] = Location(params[r])]
  /\ pc' = [pc EXCEPT ![r] = "awaitInsert"]
  /\ log' = [log EXCEPT ![r] = @ \o <<Failed("s3.upload"), Called("Trip.addImage")>>]
  /\ UNCHANGED <<file, caption, tripId, ldmkArray, tags, tagData, params, imageId, nextErr>>
  /\ UNCHANGED <<now, bucket, dbVars, policyVars, acctVars>>

\* The upload tried a second time after it failed.
UploadFailedRetry(r) ==
  /\ pc[r] = "awaitUpload"
  /\ IF InLog(r, Failed("s3.upload"))
     THEN /\ res' = [res EXCEPT ![r] =
                      [status |-> 500, text |-> "Error uploading image to S3"]]
          /\ pc' = [pc EXCEPT ![r] = "done"]
          /\ log' = [log EXCEPT ![r] = Append(@, Failed("s3.upload"))]
     ELSE /\ res' = res
          /\ pc' = pc
          /\ log' = [log EXCEPT ![r] = @ \o <<Failed("s3.upload"), Called("s3.upload")>>]
  /\ UNCHANGED <<file, caption, tripId, ldmkArray, tags, tagData, params, data, imageId,
                 nextErr>>
  /\ UNCHANGED <<now, bucket, dbVars, policyVars, acctVars>>

\* Lines 167-170: the upload failed.
UploadFailed(r) ==
  /\ pc[r] = "awaitUpload"
  /\ res' = [res EXCEPT ![r] = [status |-> 500, text |-> "Error uploading image to S3"]]
  /\ pc' = [pc EXCEPT ![r] = "done"]
  /\ log' = [log EXCEPT ![r] = Append(@, Failed("s3.upload"))]
  /\ UNCHANGED <<file, caption, tripId, ldmkArray, tags, tagData, params, data, imageId,
                 nextErr>>
  /\ UNCHANGED <<now, bucket, dbVars, policyVars, acctVars>>

\* The bucket without the object under a key.
Without(b, key) == [k \in DOMAIN b \ {key} |-> b[k]]

\* AddImageReturned with a catch that deletes the uploaded object again.
AddImageReturnedRollback(r) ==
  /\ pc[r] = "awaitInsert"
  /\ LET row == ImageRow(imagesSeq, tripId[r],
                         ImageData(data[r], caption[r], tagData[r]))
     IN IF InsertError(row) = NoError
        THEN /\ images' = images \cup {row}
             /\ imagesSeq' = imagesSeq + 1
             /\ imageId' = [imageId EXCEPT ![r] = row.id]
             /\ res' = [res EXCEPT ![r] =
                  [status |-> 201,
                   text |-> "File uploaded successfully. URL: " \o data[r]]]
             /\ nextErr' = nextErr
             /\ bucket' = bucket
             /\ log' = [log EXCEPT ![r] = Append(@, Ok("Trip.addImage"))]
        ELSE /\ nextErr' = [nextErr EXCEPT ![r] = InsertError(row)]
             /\ bucket' = Without(bucket, params[r])
             /\ log' = [log EXCEPT ![r] = Append(@, Failed("Trip.addImage"))]
             /\ UNCHANGED <<images, imagesSeq, imageId, res>>
  /\ pc' = [pc EXCEPT ![r] = "done"]
  /\ UNCHANGED <<file, caption, tripId, ldmkArray, tags, tagData, params, data>>
  /\ UNCHANGED <<now, trips, tripsSeq, policyVars, acctVars>>

\* Trip.addImage (trip.js 124-141) and lines 178-182 of the callback: the
\* INSERT ran; the row is stored and 201 sent, or the error goes to next.
AddImageReturned(r) ==
  /\ pc[r] = "awaitInsert"
  /\ LET row == ImageRow(imagesSeq, tripId[r],
                         ImageData(data[r], caption[r], tagData[r]))
     IN IF InsertError(row) = NoError
        THEN /\ images' = images \cup {row}
             /\ imagesSeq' = imagesSeq + 1
             /\ imageId' = [imageId EXCEPT ![r] = row.id]
             /\ res' = [res EXCEPT ![r] =
                  [status |-> 201,
                   text |-> "File uploaded successfully. URL: " \o data[r]]]
             /\ nextErr' = nextErr
             /\ log' = [log EXCEPT ![r] = Append(@, Ok("Trip.addImage"))]
        ELSE /\ nextErr' = [nextErr EXCEPT ![r] = InsertError(row)]
             /\ log' = [log EXCEPT ![r] = Append(@, Failed("Trip.addImage"))]
             /\ UNCHANGED <<images, imagesSeq, imageId, res>>
  /\ pc' = [pc EXCEPT ![r] = "done"]
  /\ UNCHANGED <<file, caption, tripId, ldmkArray, tags, tagData, params, data>>
  /\ UNCHANGED <<now, bucket, trips, tripsSeq, policyVars, acctVars>>

(***************************************************************************)
(* The rest of the world.                                                  *)
(***************************************************************************)
\* NULL in an INTEGER column; a SERIAL id is never 0.
NullId == 0

\* user_id INTEGER REFERENCES users: NULL, or the id of a row of users.
UserExists(userId) == userId = NullId \/ userId \in {u.id : u \in users}

\* Trip.create (trip.js 18-33): INSERT INTO trips ... RETURNING id.
TripCreate(title, userId) ==
  /\ tripsSeq <= MaxTrips
  /\ UserExists(userId)
  /\ trips' = trips \cup {[id |-> tripsSeq, user_id |-> userId, title |-> title]}
  /\ tripsSeq' = tripsSeq + 1
  /\ UNCHANGED <<reqVars, now, bucket, images, imagesSeq, policyVars, acctVars>>

\* Trip.remove over a schema whose images.trip_id does not cascade.
TripRemoveNoCascade(id) ==
  /\ id \in {t.id : t \in trips}
  /\ trips' = {t \in trips : t.id # id}
  /\ UNCHANGED <<reqVars, now, bucket, tripsSeq, images, imagesSeq, policyVars, acctVars>>

\* Trip.remove (trip.js 157-167) of an existing trip: DELETE FROM trips, and
\* with it the images that reference the trip (ON DELETE CASCADE).
TripRemove(id) ==
  /\ id \in {t.id : t \in trips}
  /\ trips' = {t \in trips : t.id # id}
  /\ images' = {i \in images : i.trip_id # id}
  /\ UNCHANGED <<reqVars, now, bucket, tripsSeq, imagesSeq, policyVars, acctVars>>

\* A millisecond passes.
Tick ==
  /\ now < MaxClock
  /\ now' = now + 1
  /\ UNCHANGED <<reqVars, bucket, dbVars, policyVars, acctVars>>

Next ==
  \/ \E r \in Reqs, f \in Files, cap \in Captions, id \in TripIds : Receive(r, f, cap, id)
  \/ \E r \in Reqs : LandmarkResolved(r)
  \/ \E r \in Reqs : LandmarkRejected(r)
  \/ \E r \in Reqs : LabelResolved(r)
  \/ \E r \in Reqs : LabelRejected(r)
  \/ \E r \in Reqs : UploadSucceeded(r)
  \/ \E r \in Reqs : UploadFailed(r)
  \/ \E r \in Reqs : AddImageReturned(r)
  \/ \E title \in {"Paris"}, userId \in {NullId} : TripCreate(title, userId)
  \/ \E id \in TripIds : TripRemove(id)
  \/ Tick

Spec == Init /\ [][Next]_vars

(***************************************************************************)
(* The second trips route module (src/routes/auth.js 131-432): the same    *)
(* handler, except that it asks for labels only when no landmark was       *)
(* found, keeps three tags, or the landmark alone, and answers with        *)
(* res.send, whose status is 200.                                          *)
(***************************************************************************)
\* auth.js 251-269.  A property the object does not have reads as undefined
\* when Trip.addImage destructures the image.
TagDataAlt(landmarks, labels) ==
  IF Len(landmarks) = 0
  THEN [tag1 |-> Index(labels, 0), tag2 |-> Index(labels, 1), tag3 |-> Index(labels, 2),
        tag4 |-> Undefined, tag5 |-> Undefined]
  ELSE [tag1 |-> landmarks[1].description, tag2 |-> Undefined, tag3 |-> Undefined,
        tag4 |-> Undefined, tag5 |-> Undefined]

\* auth.js 250-281: landmarkDetection resolved; without a landmark the
\* handler calls labelDetection, with one it goes on to s3.upload.
LandmarkResolvedAlt(r) ==
  /\ pc[r] = "awaitLandmark"
  /\ ldmkArray' = [ldmkArray EXCEPT ![r] = LandmarkAnnotations(file[r].buffer)]
  /\ IF Len(ldmkArray'[r]) = 0
     THEN /\ pc' = [pc EXCEPT ![r] = "awaitLabel"]
          /\ log' = [log EXCEPT ![r] =
                       @ \o <<Ok("landmarkDetection"), Called("labelDetection")>>]
          /\ UNCHANGED <<tagData, params>>
     ELSE /\ tagData' = [tagData EXCEPT ![r] = TagDataAlt(ldmkArray'[r], << >>)]
          /\ params' = [params EXCEPT ![r] = Key(file[r].originalname, now)]
          /\ pc' = [pc EXCEPT ![r] = "awaitUpload"]
          /\ log' = [log EXCEPT ![r] =
                       @ \o <<Ok("landmarkDetection"), Called("s3.upload")>>]
  /\ UNCHANGED <<file, caption, tripId, tags, data, imageId, res, nextErr>>
  /\ UNCHANGED <<now, bucket, dbVars, policyVars, acctVars>>

\* auth.js 256-281: labelDetection resolved.
LabelResolvedAlt(r) ==
  /\ pc[r] = "awaitLabel"
  /\ tags' = [tags EXCEPT ![r] = Descriptions(LabelAnnotations(file[r].buffer))]
  /\ tagData' = [tagData EXCEPT ![r] = TagDataAlt(ldmkArray[r], tags'[r])]
  /\ params' = [params EXCEPT ![r] = Key(file[r].originalname, now)]
  /\ pc' = [pc EXCEPT ![r] = "awaitUpload"]
  /\ log' = [log EXCEPT ![r] = @ \o <<Ok("labelDetection"), Called("s3.upload")>>]
  /\ UNCHANGED <<file, caption, tripId, ldmkArray, data, imageId, res, nextErr>>
  /\ UNCHANGED <<now, bucket, dbVars, policyVars, acctVars>>

\* auth.js 287-297: Trip.addImage returned; res.send answers with 200.
AddImageReturnedAlt(r) ==
  /\ pc[r] = "awaitInsert"
  /\ LET row == ImageRow(imagesSeq, tripId[r],
                         ImageData(data[r], caption[r], tagData[r]))
     IN IF InsertError(row) = NoError
        THEN /\ images' = images \cup {row}
             /\ imagesSeq' = imagesSeq + 1
             /\ imageId' = [imageId EXCEPT ![r] = row.id]
             /\ res' = [res EXCEPT ![r] =
                  [status |-> 200,
                   text |-> "File uploaded successfully. URL: " \o data[r]]]
             /\ nextErr' = nextErr
             /\ log' = [log EXCEPT ![r] = Append(@, Ok("Trip.addImage"))]
        ELSE /\ nextErr' = [nextErr EXCEPT ![r] = InsertError(row)]
             /\ log' = [log EXCEPT ![r] = Append(@, Failed("Trip.addImage"))]
             /\ UNCHANGED <<images, imagesSeq, imageId, res>>
  /\ pc' = [pc EXCEPT ![r] = "done"]
  /\ UNCHANGED <<file, caption, tripId, ldmkArray, tags, tagData, params, data>>
  /\ UNCHANGED <<now, bucket, trips, tripsSeq, policyVars, acctVars>>

\* The validation (auth.js 234-248), the rejected awaits (250, 256) and the
\* upload callback's error branch (282-285) are those of the first module.
AltNext ==
  \/ \E r \in Reqs, f \in Files, cap \in Captions, id \in TripIds : Receive(r, f, cap, id)
  \/ \E r \in Reqs : LandmarkResolvedAlt(r)
  \/ \E r \in Reqs : LandmarkRejected(r)
  \/ \E r \in Reqs : LabelResolvedAlt(r)
  \/ \E r \in Reqs : LabelRejected(r)
  \/ \E r \in Reqs : UploadSucceeded(r)
  \/ \E r \in Reqs : UploadFailed(r)
  \/ \E r \in Reqs : AddImageReturnedAlt(r)
  \/ \E title \in {"Paris"}, userId \in {NullId} : TripCreate(title, userId)
  \/ \E id \in TripIds : TripRemove(id)
  \/ Tick

AltSpec == Init /\ [][AltNext]_vars

(***************************************************************************)
(* Tag resolution alone: lines 133-154 applied to every landmark sequence  *)
(* of at most MaxLandmarks landmarks and every label sequence of at most   *)
(* MaxLabels labels.                                                       *)
(***************************************************************************)
SeqsUpTo(S, n) == UNION { [1..k -> S] : k \in 0..n }

LandmarkSeqs ==
  SeqsUpTo({[description |-> "Eiffel Tower"], [description |-> "Louvre Pyramid"]},
           MaxLandmarks)

LabelSeqs == SeqsUpTo({"tower", "sky"}, MaxLabels)

TagInit ==
  /\ ReqInit
  /\ WorldInit
  /\ AcctInit
  /\ ldmkIn \in LandmarkSeqs
  /\ tagsIn \in LabelSeqs
  /\ tagsOut = NoTagData
  /\ resolved = FALSE
  /\ tagsOutAlt = NoTagData
  /\ resolvedAlt = FALSE

Resolve ==
  /\ ~resolved
  /\ tagsOut' = TagData(ldmkIn, tagsIn)
  /\ resolved' = TRUE
  /\ UNCHANGED <<reqVars, now, bucket, dbVars, acctVars, ldmkIn, tagsIn, tagsOutAlt,
                 resolvedAlt>>

\* The second route module on the same classifier results: the labels are
\* asked for, and used, only when no landmark was found.
ResolveAlt ==
  /\ ~resolvedAlt
  /\ tagsOutAlt' = TagDataAlt(ldmkIn, IF Len(ldmkIn) = 0 THEN tagsIn ELSE << >>)
  /\ resolvedAlt' = TRUE
  /\ UNCHANGED <<reqVars, now, bucket, dbVars, acctVars, ldmkIn, tagsIn, tagsOut,
                 resolved>>

TagNext ==
  \/ Resolve
  \/ ResolveAlt

TagSpec == TagInit /\ [][TagNext]_vars

(***************************************************************************)
(* The models called directly, in any order: User.register and            *)
(* User.remove of src/models/user.js, Trip.create, Trip.addImage and       *)
(* Trip.remove of src/models/trip.js, over the schema.                     *)
(***************************************************************************)
Usernames == {"alice", "bob"}

\* The images Trip.addImage is given here: a location, a caption, one tag.
DbImages ==
  { ImageData(Location(Key("a.jpg", 0)), "sunset", TagData(<< >>, <<t>>)) : t \in {"sky"} }

\* User.register up to its first INSERT-free await (user.js 58-71): the
\* duplicate check ran; a taken username throws BadRequestError, a free one
\* leaves the call waiting for bcrypt.hash.
RegisterChecked(g, username) ==
  /\ regPc[g] = "idle"
  /\ regName' = [regName EXCEPT ![g] = username]
  /\ IF \E u \in users : u.username = username
     THEN /\ regOut' = [regOut EXCEPT ![g] = "BadRequestError"]
          /\ regPc' = [regPc EXCEPT ![g] = "done"]
     ELSE /\ regOut' = regOut
          /\ regPc' = [regPc EXCEPT ![g] = "hashing"]
  /\ UNCHANGED <<users, usersSeq>>
  /\ UNCHANGED <<reqVars, now, bucket, dbVars, policyVars>>

\* User.register from the hash on (user.js 71-98): the INSERT ran, and is
\* refused by username UNIQUE when a row with the username exists by now.
RegisterInserted(g) ==
  /\ regPc[g] = "hashing"
  /\ IF \E u \in users : u.username = regName[g]
     THEN /\ regOut' = [regOut EXCEPT ![g] = "unique_violation"]
          /\ UNCHANGED <<users, usersSeq>>
     ELSE /\ users' = users \cup {[id |-> usersSeq, username |-> regName[g]]}
          /\ usersSeq' = usersSeq + 1
          /\ regOut' = [regOut EXCEPT ![g] = "registered"]
  /\ regPc' = [regPc EXCEPT ![g] = "done"]
  /\ regName' = regName
  /\ UNCHANGED <<reqVars, now, bucket, dbVars, policyVars>>

\* User.remove (user.js 220-231) of an existing user: DELETE FROM users, and
\* with it the user's trips and their images (ON DELETE CASCADE, twice).
UserRemove(username) ==
  /\ \E u \in users : u.username = username
  /\ LET gone == {u.id : u \in {v \in users : v.username = username}}
         lost == {t.id : t \in {x \in trips : x.user_id \in gone}}
     IN /\ users' = {u \in users : u.id \notin gone}
        /\ trips' = {t \in trips : t.id \notin lost}
        /\ images' = {i \in images : i.trip_id \notin lost}
  /\ UNCHANGED <<usersSeq, regPc, regName, regOut, tripsSeq, imagesSeq>>
  /\ UNCHANGED <<reqVars, now, bucket, policyVars>>

\* Trip.create (trip.js 18-33) for a user or for none.
DbTripCreate(title, userId) ==
  /\ tripsSeq <= MaxDbTrips
  /\ UserExists(userId)
  /\ trips' = trips \cup {[id |-> tripsSeq, user_id |-> userId, title |-> title]}
  /\ tripsSeq' = tripsSeq + 1
  /\ UNCHANGED <<reqVars, now, bucket, images, imagesSeq, policyVars, acctVars>>

\* Trip.addImage (trip.js 124-141) whose INSERT succeeds.
DbAddImage(id, image) ==
  /\ imagesSeq <= MaxDbImages
  /\ InsertError(ImageRow(imagesSeq, id, image)) = NoError
  /\ images' = images \cup {ImageRow(imagesSeq, id, image)}
  /\ imagesSeq' = imagesSeq + 1
  /\ UNCHANGED <<reqVars, now, bucket, trips, tripsSeq, policyVars, acctVars>>

DbNext ==
  \/ \E g \in Regs, username \in Usernames : RegisterChecked(g, username)
  \/ \E g \in Regs : RegisterInserted(g)
  \/ \E username \in Usernames : UserRemove(username)
  \/ \E title \in {"Paris"}, userId \in {NullId} \cup (1..Cardinality(Regs)) :
       DbTripCreate(title, userId)
  \/ \E id \in 1..MaxDbTrips : TripRemove(id)
  \/ \E id \in 1..MaxDbTrips, image \in DbImages : DbAddImage(id, image)

DbSpec == Init /\ [][DbNext]_vars

(***************************************************************************)
(* Vocabulary of the properties.                                           *)
(***************************************************************************)
\* A slot that holds no tag: undefined in the handler, NULL in a row.
Absent(v) == v \in {Undefined, Null}

\* Two slots agree: both hold no tag, or both hold the same tag.
SameSlot(v, w) == (Absent(v) /\ Absent(w)) \/ (~Absent(v) /\ ~Absent(w) /\ v = w)

TagColumns == <<"tag1", "tag2", "tag3", "tag4", "tag5">>

\* The value of a column of a row: NULL for a column the row does not have.
Column(row, c) == IF c \in DOMAIN row THEN row[c] ELSE Null

\* The first n elements of s, all of s when it is shorter.
Take(s, n) == SubSeq(s, 1, IF Len(s) < n THEN Len(s) ELSE n)

\* The Tag Resolution Policy: the tags in slot order.
PolicyTags(landmarks, labels) ==
  IF Len(landmarks) > 0
  THEN <<landmarks[1].description>> \o Take(labels, 4)
  ELSE Take(labels, 5)

\* A TagSet is the one the policy defines for these classifier results.
MeetsPolicy(td, landmarks, labels) ==
  LET want == PolicyTags(landmarks, labels)
  IN \A k \in 1..5 : IF k <= Len(want) THEN td[TagColumns[k]] = want[k]
                                        ELSE Absent(td[TagColumns[k]])

\* The row of images a request inserted, if the table still holds it.
RowsOf(r) == {row \in images : row.id = imageId[r]}

(***************************************************************************)
(* C1: for every landmark sequence and every label sequence, the TagSet    *)
(* the handler computes is the one of the Tag Resolution Policy: with a    *)
(* landmark, tag1 is the first landmark's description and tag2..tag5 the   *)
(* first 4 labels; without, tag1..tag5 are the first 5 labels; the slots   *)
(* past the available labels are absent.  Checked under TagSpec.           *)
(***************************************************************************)
C1_TagSetIsPolicy == resolved => MeetsPolicy(tagsOut, ldmkIn, tagsIn)

\* A landmark and five labels: only four of them fit.
C1_Witness ==
  /\ resolved
  /\ Len(ldmkIn) = 1
  /\ Len(tagsIn) = 5
  /\ tagsOut.tag5 = tagsIn[4]

(***************************************************************************)
(* C2: after a successful POST /trips/:id, the row Trip.addImage wrote     *)
(* holds the upload's URL, the request's caption and the whole TagSet of   *)
(* the request: each of tag1..tag5 of the row equals that slot of the      *)
(* TagSet.  The code does not keep it: Trip.addImage stores tag1..tag3.    *)
(***************************************************************************)
C2_RowHoldsTagSet ==
  \A r \in Reqs : \A row \in RowsOf(r) :
    /\ row.file_url = data[r]
    /\ row.caption = caption[r]
    /\ \A k \in 1..5 : SameSlot(Column(row, TagColumns[k]), tagData[r][TagColumns[k]])

(***************************************************************************)
(* C3: when the upload succeeds and the classifier returns the landmark    *)
(* "Eiffel Tower" and the labels tower, sky, architecture, landmark,       *)
(* europe, the persisted row has tag1 = "Eiffel Tower", tag2 = "tower",    *)
(* tag3 = "sky", tag4 = "architecture" and no tag5.  The row of the code   *)
(* has no tag4.                                                            *)
(***************************************************************************)
C3_EiffelRow ==
  \A r \in Reqs : \A row \in RowsOf(r) :
    (/\ ldmkArray[r] = << [description |-> "Eiffel Tower"] >>
     /\ tags[r] = <<"tower", "sky", "architecture", "landmark", "europe">>)
    => /\ Column(row, "tag1") = "Eiffel Tower"
       /\ Column(row, "tag2") = "tower"
       /\ Column(row, "tag3") = "sky"
       /\ Column(row, "tag4") = "architecture"
       /\ Absent(Column(row, "tag5"))

(***************************************************************************)
(* C4: a request that lacks the file, the caption, the file name, the      *)
(* file bytes or the MIME type is answered with 400 and invokes neither    *)
(* the classifier nor the storage upload nor the persistence write.        *)
(***************************************************************************)
Lacks(r) ==
  \/ ~file[r].present
  \/ caption[r] = Undefined
  \/ file[r].originalname \in {Undefined, ""}
  \/ file[r].buffer = Undefined
  \/ file[r].mimetype = Undefined

C4_InvalidRefused ==
  \A r \in Reqs :
    (pc[r] # "idle" /\ Lacks(r))
    => /\ res[r].status = 400
       /\ pc[r] = "done"
       /\ log[r] = << >>
       /\ params[r] = Undefined
       /\ data[r] = Undefined
       /\ imageId[r] = 0
       /\ nextErr[r] = NoError

\* A request with a file and no caption was refused while the other
\* request's image was stored.
C4_Witness ==
  \E r \in Reqs, q \in Reqs :
    /\ file[r] \in GoodFiles
    /\ caption[r] = Undefined
    /\ res[r].status = 400
    /\ RowsOf(q) # {}

\* Every row of images was inserted by a request, whose imageId names it.
RowsAccounted == \A row \in images : \E r \in Reqs : imageId[r] = row.id

(***************************************************************************)
(* C5: if the storage upload of a request fails, Trip.addImage is never    *)
(* called for it, no row is added to images for it, and the response       *)
(* carries status 500.                                                     *)
(***************************************************************************)
C5_UploadFailureNoRow ==
  /\ RowsAccounted
  /\ \A r \in Reqs :
       InLog(r, Failed("s3.upload"))
       => /\ ~InLog(r, Called("Trip.addImage"))
          /\ imageId[r] = 0
          /\ res[r].status = 500

\* One request's upload failed while the other's image was stored.
C5_Witness ==
  \E r \in Reqs, q \in Reqs :
    /\ InLog(r, Failed("s3.upload"))
    /\ res[r].status = 500
    /\ RowsOf(q) # {}

(***************************************************************************)
(* C6: if the landmark call or the label call of the classifier fails,     *)
(* neither the storage upload nor the persistence write is attempted for   *)
(* that request: no key is built, no blob is put, no row is inserted.      *)
(***************************************************************************)
ClassifierFailed(r) ==
  InLog(r, Failed("landmarkDetection")) \/ InLog(r, Failed("labelDetection"))

C6_ClassifierFailureStops ==
  /\ RowsAccounted
  /\ \A r \in Reqs :
       ClassifierFailed(r)
       => /\ ~InLog(r, Called("s3.upload"))
          /\ ~InLog(r, Called("Trip.addImage"))
          /\ params[r] = Undefined
          /\ data[r] = Undefined
          /\ imageId[r] = 0
          /\ tagData[r] = NoTagData

\* The label call failed after the landmark call had found a landmark.
C6_Witness ==
  \E r \in Reqs :
    /\ InLog(r, Failed("labelDetection"))
    /\ Len(ldmkArray[r]) > 0

(***************************************************************************)
(* C7: every request ends in one terminal state, Persisted or Failed, and  *)
(* a failure of the classifier call, of the storage upload or of the       *)
(* persistence write always produces an error outcome for the client: a    *)
(* response sent, or the error passed to next.  No request is left without *)
(* a response.  The code leaves one: a rejected classifier call is         *)
(* awaited outside any try block.                                          *)
(***************************************************************************)
SomeFailed(r) == \E i \in 1..Len(log[r]) : log[r][i].ev = "failed"

C7_FailureAnswered ==
  \A r \in Reqs :
    SomeFailed(r) => (res[r].status >= 400 \/ nextErr[r] # NoError)

(***************************************************************************)
(* C8: a row is added to images for a request only after its validation,   *)
(* its landmark call, its label call and its storage upload have each      *)
(* succeeded, in that order, and the row's file_url is the URL its own      *)
(* upload returned.                                                        *)
(***************************************************************************)
PersistedLog ==
  << Called("landmarkDetection"), Ok("landmarkDetection"),
     Called("labelDetection"), Ok("labelDetection"),
     Called("s3.upload"), Ok("s3.upload"),
     Called("Trip.addImage"), Ok("Trip.addImage") >>

C8_RowAfterPipeline ==
  \A row \in images : \E r \in Reqs :
    /\ imageId[r] = row.id
    /\ ~Lacks(r)
    /\ log[r] = PersistedLog
    /\ tagData[r] = TagData(ldmkArray[r], tags[r])
    /\ \E t \in 0..now : params[r] = Key(file[r].originalname, t)
    /\ params[r] \in DOMAIN bucket
    /\ row.file_url = Location(params[r])
    /\ row.file_url = data[r]

\* Both requests stored a row, under the same key.
C8_Witness ==
  \E r \in Reqs, q \in Reqs :
    /\ r # q
    /\ RowsOf(r) # {}
    /\ RowsOf(q) # {}
    /\ params[r] = params[q]

(***************************************************************************)
(* C9: within one request each external operation (landmark detection,     *)
(* label detection, storage upload, persistence write) is invoked at most  *)
(* once, and after one of them failed none is invoked again.               *)
(***************************************************************************)
Operations == {"landmarkDetection", "labelDetection", "s3.upload", "Trip.addImage"}

Invocations(r, op) == Cardinality({i \in 1..Len(log[r]) : log[r][i] = Called(op)})

C9_NoRetry ==
  \A r \in Reqs :
    /\ \A op \in Operations : Invocations(r, op) <= 1
    /\ \A i \in 1..Len(log[r]) : log[r][i].ev = "failed" => i = Len(log[r])

\* An upload failed and the request is over.
C9_Witness ==
  \E r \in Reqs :
    /\ InLog(r, Failed("s3.upload"))
    /\ Invocations(r, "s3.upload") = 1
    /\ pc[r] = "done"

(***************************************************************************)
(* C10: if the persistence write fails after the storage upload            *)
(* succeeded, the uploaded blob stays in the object store, no image row    *)
(* exists for the request, and the error is passed to next.                *)
(***************************************************************************)
C10_OrphanedBlob ==
  /\ RowsAccounted
  /\ \A r \in Reqs :
       InLog(r, Failed("Trip.addImage"))
       => /\ InLog(r, Ok("s3.upload"))
          /\ params[r] \in DOMAIN bucket
          /\ imageId[r] = 0
          /\ nextErr[r] # NoError
          /\ res[r] = NoResponse

\* The INSERT of a request failed on a tag longer than the column, and no
\* other request put an object under its key.
C10_Witness ==
  \E r \in Reqs :
    /\ InLog(r, Failed("Trip.addImage"))
    /\ nextErr[r] = "string_data_right_truncation"
    /\ \A q \in Reqs \ {r} : params[q] # params[r]

(***************************************************************************)
(* C11: a request is answered with status 201 and a plain-text body that   *)
(* contains the storage URL if and only if its image row was persisted,    *)
(* and 201 is never sent before Trip.addImage succeeded.  The handler of   *)
(* src/routes/trips.js does so; the second route module answers a          *)
(* persisted image with res.send, status 200.                              *)
(***************************************************************************)
Created(r) ==
  /\ res[r].status = 201
  /\ res[r].text = "File uploaded successfully. URL: " \o data[r]

C11_CreatedIffPersisted ==
  \A r \in Reqs : Created(r) <=> InLog(r, Ok("Trip.addImage"))

(***************************************************************************)
(* C12: after any sequence of trip creations, image additions, Trip.remove *)
(* and User.remove calls, every image row refers to an existing trip and   *)
(* every trip with a user_id refers to an existing user: removing a trip   *)
(* removes its images, removing a user removes the user's trips and their  *)
(* images.  Checked under DbSpec.                                          *)
(***************************************************************************)
C12_ReferencesResolve ==
  /\ \A i \in images : \E t \in trips : t.id = i.trip_id
  /\ \A t \in trips : t.user_id # NullId => \E u \in users : u.id = t.user_id

\* Two trips got an image each; one of the trips went, by Trip.remove or
\* with its user, and took its image with it, while the other's stayed.
C12_Witness ==
  /\ tripsSeq = 3
  /\ imagesSeq = 3
  /\ Cardinality(trips) = 1
  /\ Cardinality(images) = 1
  /\ usersSeq > 1

(***************************************************************************)
(* C13: the storage keys of two requests, concurrent ones with the same    *)
(* original file name included, are different, so no upload overwrites     *)
(* the blob of another request.  The suffix of the key is Date.now(): two  *)
(* requests that build their key in the same millisecond get the same key. *)
(***************************************************************************)
C13_KeysDiffer ==
  \A r \in Reqs, q \in Reqs :
    (r # q /\ params[r] # Undefined /\ params[q] # Undefined) => params[r] # params[q]

(***************************************************************************)
(* C14: in every TagSet the handler computes the slots are filled left to  *)
(* right without gaps: for k in 1..4, if slot k is absent then every slot  *)
(* after k is absent; and slot 1 holds the first landmark's description    *)
(* when a landmark exists and otherwise the top label.  Checked under      *)
(* TagSpec.                                                                *)
(***************************************************************************)
C14_NoGaps ==
  resolved =>
    /\ \A k \in 1..4 :
         Absent(tagsOut[TagColumns[k]])
         => \A j \in (k + 1)..5 : Absent(tagsOut[TagColumns[j]])
    /\ IF Len(ldmkIn) > 0 THEN tagsOut.tag1 = ldmkIn[1].description
       ELSE IF Len(tagsIn) > 0 THEN tagsOut.tag1 = tagsIn[1]
       ELSE Absent(tagsOut.tag1)

\* A landmark and two labels: three slots filled, two left absent.
C14_Witness ==
  /\ resolved
  /\ Len(ldmkIn) = 2
  /\ Len(tagsIn) = 2
  /\ ~Absent(tagsOut.tag3)
  /\ Absent(tagsOut.tag4)

(***************************************************************************)
(* C15: Trip.addImage called with a trip id that matches no trip throws    *)
(* NotFoundError and adds no row to the images table: every step in which  *)
(* the INSERT of a request returns while no trip has the request's trip id *)
(* hands NotFoundError to next and leaves images as it was.                *)
(***************************************************************************)
C15_MissingTripNotFound ==
  [][\A r \in Reqs :
       (/\ pc[r] = "awaitInsert"
        /\ pc'[r] = "done"
        /\ tripId[r] \notin {t.id : t \in trips})
       => (nextErr'[r] = "NotFoundError" /\ images' = images)]_vars

(***************************************************************************)
(* C16: User.register refuses a taken username with BadRequestError under  *)
(* every interleaving: a registration that has ended either inserted its   *)
(* row or threw BadRequestError, and no two rows of users share a          *)
(* username.  Checked under DbSpec, where two registrations run            *)
(* concurrently.                                                           *)
(***************************************************************************)
C16_DuplicateIsBadRequest ==
  /\ \A g \in Regs :
       regPc[g] = "done" => regOut[g] \in {"registered", "BadRequestError"}
  /\ \A u \in users, v \in users : u.username = v.username => u = v

(***************************************************************************)
(* C17: the two implementations of the upload route produce the same       *)
(* TagSet for every classifier outcome, and it is the TagSet of the Tag    *)
(* Resolution Policy with 5 slots: once both have resolved the same        *)
(* landmark and label results, their tag sets agree slot by slot and the   *)
(* second module's tag set meets the policy.  Checked under TagSpec.       *)
(***************************************************************************)
C17_ImplementationsAgree ==
  (resolved /\ resolvedAlt) =>
    /\ \A k \in 1..5 : SameSlot(tagsOut[TagColumns[k]], tagsOutAlt[TagColumns[k]])
    /\ MeetsPolicy(tagsOutAlt, ldmkIn, tagsIn)

(***************************************************************************)
(* C18: whenever validation, both classifier calls and the upload have     *)
(* succeeded and the trip exists, the request is persisted and an image    *)
(* row is written, whatever the classifier returned: every step in which   *)
(* the INSERT of a request returns while a trip has the request's trip id  *)
(* records the success of Trip.addImage and leaves the request's row in    *)
(* images.                                                                 *)
(***************************************************************************)
C18_PersistedWhateverTags ==
  [][\A r \in Reqs :
       (/\ pc[r] = "awaitInsert"
        /\ pc'[r] = "done"
        /\ tripId[r] \in {t.id : t \in trips})
       => /\ log'[r] = Append(log[r], Ok("Trip.addImage"))
          /\ \E row \in images' \ images : row.id = imageId'[r]]_vars

====
